---- MODULE Spec2Model ----
(***************************************************************************)
(* Batched dense matrix multiplication of dynet (dynet/matrix-multiply.h): *)
(* MatrixMultiply, MatrixTranspMultiplyAcc and MatrixMultiplyTranspAcc,    *)
(* each on the CPU (Eigen) path and on the GPU (cuBLAS) path.              *)
(*                                                                         *)
(* Memory is one flat heap of floats; a tensor is a dimension descriptor   *)
(* d = (rows, cols, bd) and a base pointer v into the heap.  A float is    *)
(* a binary32 number of integer value or a non-finite value, which an      *)
(* output buffer taken from the memory pool may hold before it is first    *)
(* written.                                                                *)
(***************************************************************************)
EXTENDS Integers, Sequences, FiniteSets, TLC

\* Largest rows/cols of an operand, and largest batch count, explored.
MaxDim == 2
MaxBatch == 2

(***************************************************************************)
(* Floats (IEEE-754 binary32, round to nearest, ties to even).  A finite   *)
(* float of integer value is v * 2^e with |v| < 2^24, and v = 0 or e = 0   *)
(* or |v| >= 2^23, so that equal numbers are equal records.  NaN stands    *)
(* for every non-finite value (NaN, +inf, -inf): an operation with a       *)
(* non-finite operand gives a non-finite result, and a finite result too   *)
(* large for the format overflows to one.  The sign of zero is not kept.   *)
(***************************************************************************)
NaN == [nan |-> TRUE, v |-> 0, e |-> 0]

Abs(x) == IF x < 0 THEN -x ELSE x

\* The number of binary digits of h, 0 <= h < 2^26.
Bits(h) == CHOOSE n \in 0..26 : h < 2^n /\ (n = 0 \/ h >= 2^(n - 1))

\* The finite float of mantissa m < 2^24 and exponent ex, normalised; infinity
\* when the exponent is beyond that of FLT_MAX = (2^24 - 1) * 2^104.
Pack(neg, m, ex) ==
  IF m = 0 THEN [nan |-> FALSE, v |-> 0, e |-> 0]
  ELSE LET free == 24 - Bits(m)
           sh   == IF ex < free THEN ex ELSE free
       IN  IF ex - sh > 128 - 24 THEN NaN
           ELSE [nan |-> FALSE,
                 v |-> IF neg THEN -(m * 2^sh) ELSE m * 2^sh,
                 e |-> ex - sh]

\* The exact magnitude (H * 2^24 + L) * 2^ex, 0 <= H < 2^26, 0 <= L < 2^24,
\* rounded to 24 significant bits.
RoundHL(neg, H, L, ex) ==
  LET n == Bits(H)
  IN  IF n = 0 THEN Pack(neg, L, ex)
      ELSE LET q    == IF n <= 24 THEN H * 2^(24 - n) + L \div 2^n
                                  ELSE H \div 2^(n - 24)
               rem  == IF n <= 24 THEN L % 2^n
                                  ELSE (H % 2^(n - 24)) * 2^24 + L
               half == 2^(n - 1)
               up   == rem > half \/ (rem = half /\ q % 2 = 1)
               m    == IF up THEN q + 1 ELSE q
           IN  IF m = 2^24 THEN Pack(neg, 2^23, ex + n + 1)
                           ELSE Pack(neg, m, ex + n)

\* (float) x for an integer x.
F(x) ==
  IF Abs(x) < 2^24 THEN [nan |-> FALSE, v |-> x, e |-> 0]
  ELSE RoundHL(x < 0, Abs(x) \div 2^24, Abs(x) % 2^24, 0)

\* The sum of two floats.  A non-finite operand gives a non-finite result.
FSum(a, c) ==
  IF a.nan \/ c.nan THEN NaN
  ELSE IF a.e = 0 /\ c.e = 0 /\ Abs(a.v + c.v) < 2^24
       THEN [nan |-> FALSE, v |-> a.v + c.v, e |-> 0]
  ELSE IF a.v = 0 THEN c
  ELSE IF c.v = 0 THEN a
  ELSE LET x  == IF a.e >= c.e THEN a ELSE c
           y  == IF a.e >= c.e THEN c ELSE a
           d  == x.e - y.e
       IN  IF d >= 26 THEN x
           ELSE LET H0 == IF d <= 24 THEN x.v \div 2^(24 - d) ELSE x.v * 2
                    L0 == IF d <= 24 THEN (x.v % 2^(24 - d)) * 2^d ELSE 0
                    S  == L0 + y.v
                    H1 == H0 + S \div 2^24
                    L1 == S % 2^24
                    Hm == IF H1 >= 0 THEN H1 ELSE IF L1 = 0 THEN -H1 ELSE -H1 - 1
                    Lm == IF H1 >= 0 \/ L1 = 0 THEN L1 ELSE 2^24 - L1
                IN  RoundHL(H1 < 0, Hm, Lm, y.e)

\* float + float: the operands are evaluated, once each, then added.
FAdd(a, c) == CHOOSE s \in {FSum(x, y) : x \in {a}, y \in {c}} : TRUE

\* The product of two floats.  A non-finite operand gives a non-finite result
\* (0 * NaN and 0 * inf are NaN).
FProd(a, c) ==
  IF a.nan \/ c.nan THEN NaN
  ELSE IF a.e = 0 /\ c.e = 0 /\ Abs(a.v) < 2^12 /\ Abs(c.v) < 2^12
       THEN [nan |-> FALSE, v |-> a.v * c.v, e |-> 0]
  ELSE LET a1  == Abs(a.v) \div 2^12
           a0  == Abs(a.v) % 2^12
           c1  == Abs(c.v) \div 2^12
           c0  == Abs(c.v) % 2^12
           mid == a1 * c0 + a0 * c1
           low == a0 * c0 + (mid % 2^12) * 2^12
           H   == a1 * c1 + mid \div 2^12 + low \div 2^24
       IN  RoundHL((a.v < 0) # (c.v < 0), H, low % 2^24, a.e + c.e)

\* float * float: the operands are evaluated, once each, then multiplied.
FMul(a, c) == CHOOSE s \in {FProd(x, y) : x \in {a}, y \in {c}} : TRUE

\* Sum of term[0] .. term[k-1], accumulated in that order.
Dot(term, k) ==
  LET S[t \in 0..k] == IF t = 0 THEN F(0) ELSE FAdd(S[t-1], term[t-1])
  IN  S[k]

\* What memory holds at each address behind the buffers of the call, the
\* rest of the pool they were taken from.  A load there is
\* undefined behaviour: it returns whatever the pool holds at that address.
VARIABLE outside

\* A load through a raw pointer.
Rd(mem, a) == IF a \in DOMAIN mem THEN mem[a] ELSE outside[a]

(***************************************************************************)
(* Tensor and Dim accessors (dynet/tensor.h, dynet/dim.h).                 *)
(***************************************************************************)
rows(t) == t.d.rows

cols(t) == t.d.cols

batch_elems(t) == t.d.bd

\* Number of floats of one batch element.
batch_size(t) == t.d.rows * t.d.cols

\* Pointer to batch element bid; a tensor with one batch element is reused
\* at every bid.
batch_ptr(t, bid) == t.v + (IF t.d.bd = 1 THEN 0 ELSE bid) * batch_size(t)

\* A column-major matrix view: element (i, j) lives at p + i + j*ld, or at
\* p + j + i*ld when the view is transposed.
View(p, nr, nc) == [p |-> p, rows |-> nr, cols |-> nc, ld |-> nr, t |-> FALSE]

\* operator* : the tensor as one rows x cols matrix.
mat(t) == View(t.v, rows(t), cols(t))

\* batch_matrix(bid): batch element bid as a rows x cols matrix.
batch_matrix(t, bid) == View(batch_ptr(t, bid), rows(t), cols(t))

\* colbatch_matrix(): the whole batch as one rows x (cols*bd) matrix.
colbatch_matrix(t) == View(t.v, rows(t), cols(t) * batch_elems(t))

\* tbvec(): the addresses of the whole buffer.
tbvec(t) == t.v .. (t.v + batch_size(t) * batch_elems(t) - 1)

(***************************************************************************)
(* Eigen expressions used by the CPU path.                                 *)
(***************************************************************************)
transpose(V) ==
  [p |-> V.p, rows |-> V.cols, cols |-> V.rows, ld |-> V.ld, t |-> ~V.t]

At(mem, V, i, j) ==
  IF V.t THEN Rd(mem, V.p + j + i * V.ld) ELSE Rd(mem, V.p + i + j * V.ld)

\* dst.noalias() += A * B   (dst is never a transposed view here)
NoaliasAddProduct(mem, dst, A, B) ==
  [a \in DOMAIN mem |->
     LET off == a - dst.p
         i   == off % dst.ld
         j   == off \div dst.ld
     IN  IF off >= 0 /\ i < dst.rows /\ j < dst.cols
         THEN FAdd(mem[a],
                   Dot([k \in 0 .. (A.cols - 1) |->
                         FMul(At(mem, A, i, k), At(mem, B, k, j))], A.cols))
         ELSE mem[a]]

\* y.tbvec() = s * y.tbvec()
ScaleTbvec(mem, t, s) ==
  [a \in DOMAIN mem |-> IF a \in tbvec(t) THEN FMul(F(s), mem[a]) ELSE mem[a]]

(***************************************************************************)
(* cublasSgemm: C = alpha*op(A)*op(B) + beta*C on column-major operands    *)
(* with leading dimensions lda, ldb, ldc; op(A) is m x k, op(B) is k x n.  *)
(* When beta is zero C is not read, so it need not hold valid numbers.     *)
(***************************************************************************)
cublasSgemm(mem, transa, transb, m, n, k, alpha, A, lda, B, ldb, beta, C, ldc) ==
  [a \in DOMAIN mem |->
     LET off == a - C
         i   == off % ldc
         j   == off \div ldc
         opA(x, z) == IF transa THEN Rd(mem, A + z + x * lda) ELSE Rd(mem, A + x + z * lda)
         opB(z, w) == IF transb THEN Rd(mem, B + w + z * ldb) ELSE Rd(mem, B + z + w * ldb)
         prod == FMul(F(alpha), Dot([z \in 0 .. (k - 1) |-> FMul(opA(i, z), opB(z, j))], k))
     IN  IF off >= 0 /\ i < m /\ j < n
         THEN IF beta = 0 THEN prod ELSE FAdd(prod, FMul(F(beta), mem[a]))
         ELSE mem[a]]

kSCALAR_ONE == 1

\* std::max
Max(p, q) == IF p > q THEN p ELSE q

(***************************************************************************)
(* MatrixMultiply, CPU path.                                               *)
(***************************************************************************)
\* Mutant: the test on the left operand's batch count is left out.
MM_SingleCall_NoLeftTest(l, r, y) == r.d.bd = y.d.bd

\* The test that selects the single wide multiply.
MM_SingleCall(l, r, y) == l.d.bd = 1 /\ r.d.bd = y.d.bd

\* y.tbvec() = *acc_scalar * y.tbvec()
CPU_MM_Scale(mem, y, acc) == ScaleTbvec(mem, y, acc)

\* y.colbatch_matrix().noalias() += *l * r.colbatch_matrix()
CPU_MM_Wide(mem, l, r, y) ==
  NoaliasAddProduct(mem, colbatch_matrix(y), mat(l), colbatch_matrix(r))

\* y.batch_matrix(b).noalias() += l.batch_matrix(b) * r.batch_matrix(b)
CPU_MM_Batch(mem, l, r, y, b) ==
  NoaliasAddProduct(mem, batch_matrix(y, b), batch_matrix(l, b), batch_matrix(r, b))

\* The first n iterations of the loop over the batches.
RECURSIVE CPU_MM_Batches(_, _, _, _, _)
CPU_MM_Batches(mem, l, r, y, n) ==
  IF n = 0 THEN mem
  ELSE CPU_MM_Batch(CPU_MM_Batches(mem, l, r, y, n - 1), l, r, y, n - 1)

MatrixMultiply_CPU(mem, l, r, y, acc) ==
  LET scaled == CPU_MM_Scale(mem, y, acc)
  IN  IF MM_SingleCall(l, r, y)
      THEN CPU_MM_Wide(scaled, l, r, y)
      ELSE CPU_MM_Batches(scaled, l, r, y, y.d.bd)

(***************************************************************************)
(* MatrixMultiply, GPU path (every cuBLAS call succeeding).                *)
(***************************************************************************)
GPU_MM_Wide(mem, l, r, y, acc) ==
  cublasSgemm(mem, FALSE, FALSE,
              rows(y), cols(y) * batch_elems(y), cols(l),
              kSCALAR_ONE,
              l.v, rows(l),
              r.v, rows(r),
              acc, y.v, rows(y))

GPU_MM_Batch(mem, l, r, y, acc, b) ==
  cublasSgemm(mem, FALSE, FALSE,
              rows(y), cols(y), cols(l),
              kSCALAR_ONE,
              batch_ptr(l, b), rows(l),
              batch_ptr(r, b), rows(r),
              acc, batch_ptr(y, b), rows(y))

\* The first n iterations of the loop over the batches.
RECURSIVE GPU_MM_Batches(_, _, _, _, _, _)
GPU_MM_Batches(mem, l, r, y, acc, n) ==
  IF n = 0 THEN mem
  ELSE GPU_MM_Batch(GPU_MM_Batches(mem, l, r, y, acc, n - 1), l, r, y, acc, n - 1)

MatrixMultiply_GPU(mem, l, r, y, acc) ==
  IF MM_SingleCall(l, r, y)
  THEN GPU_MM_Wide(mem, l, r, y, acc)
  ELSE GPU_MM_Batches(mem, l, r, y, acc, y.d.bd)

(***************************************************************************)
(* MatrixTranspMultiplyAcc: y += l^T * r.                                  *)
(***************************************************************************)
max_b(l, r) == Max(l.d.bd, r.d.bd)

TMA_SingleCall(l, r, y) == l.d.bd = 1 /\ y.d.bd = r.d.bd

\* y.colbatch_matrix().noalias() += (*l).transpose() * r.colbatch_matrix()
CPU_TMA_Wide(mem, l, r, y) ==
  NoaliasAddProduct(mem, colbatch_matrix(y), transpose(mat(l)), colbatch_matrix(r))

\* Mutant: the output slice is addressed by a raw stride, y.v + b * batch_size,
\* whatever y's batch count.
CPU_TMA_Batch_RawStride(mem, l, r, y, b) ==
  NoaliasAddProduct(mem, View(y.v + b * batch_size(y), rows(y), cols(y)),
                    transpose(batch_matrix(l, b)), batch_matrix(r, b))

\* y.batch_matrix(b).noalias() += l.batch_matrix(b).transpose() * r.batch_matrix(b)
CPU_TMA_Batch(mem, l, r, y, b) ==
  NoaliasAddProduct(mem, batch_matrix(y, b),
                    transpose(batch_matrix(l, b)), batch_matrix(r, b))

\* The first n iterations of the loop over the batches.
RECURSIVE CPU_TMA_Batches(_, _, _, _, _)
CPU_TMA_Batches(mem, l, r, y, n) ==
  IF n = 0 THEN mem
  ELSE CPU_TMA_Batch(CPU_TMA_Batches(mem, l, r, y, n - 1), l, r, y, n - 1)

MatrixTranspMultiplyAcc_CPU(mem, l, r, y) ==
  IF TMA_SingleCall(l, r, y)
  THEN CPU_TMA_Wide(mem, l, r, y)
  ELSE CPU_TMA_Batches(mem, l, r, y, max_b(l, r))

GPU_TMA_Wide(mem, l, r, y) ==
  cublasSgemm(mem, TRUE, FALSE,
              rows(y), cols(y) * batch_elems(y), rows(l),
              kSCALAR_ONE,
              l.v, rows(l),
              r.v, rows(r),
              kSCALAR_ONE, y.v, rows(y))

\* Mutant: beta = 0, the product overwrites the prior contents.
GPU_TMA_Batch_Overwrite(mem, l, r, y, b) ==
  cublasSgemm(mem, TRUE, FALSE,
              rows(y), cols(y), rows(l),
              kSCALAR_ONE,
              batch_ptr(l, b), rows(l),
              batch_ptr(r, b), rows(r),
              0, batch_ptr(y, b), rows(y))

GPU_TMA_Batch(mem, l, r, y, b) ==
  cublasSgemm(mem, TRUE, FALSE,
              rows(y), cols(y), rows(l),
              kSCALAR_ONE,
              batch_ptr(l, b), rows(l),
              batch_ptr(r, b), rows(r),
              kSCALAR_ONE, batch_ptr(y, b), rows(y))

\* The first n iterations of the loop over the batches.
RECURSIVE GPU_TMA_Batches(_, _, _, _, _)
GPU_TMA_Batches(mem, l, r, y, n) ==
  IF n = 0 THEN mem
  ELSE GPU_TMA_Batch(GPU_TMA_Batches(mem, l, r, y, n - 1), l, r, y, n - 1)

MatrixTranspMultiplyAcc_GPU(mem, l, r, y) ==
  IF TMA_SingleCall(l, r, y)
  THEN GPU_TMA_Wide(mem, l, r, y)
  ELSE GPU_TMA_Batches(mem, l, r, y, max_b(l, r))

(***************************************************************************)
(* MatrixMultiplyTranspAcc: y += l * r^T.                                  *)
(***************************************************************************)
MTA_SingleCall(l, r, y) == y.d.bd = 1 /\ l.d.bd = r.d.bd

\* (*y).noalias() += l.colbatch_matrix() * r.colbatch_matrix().transpose()
CPU_MTA_Wide(mem, l, r, y) ==
  NoaliasAddProduct(mem, mat(y), colbatch_matrix(l), transpose(colbatch_matrix(r)))

\* Mutant: the transpose is applied to the left operand instead of the right.
CPU_MTA_Batch_TransposeLeft(mem, l, r, y, b) ==
  NoaliasAddProduct(mem, batch_matrix(y, b),
                    transpose(batch_matrix(l, b)), batch_matrix(r, b))

\* y.batch_matrix(b).noalias() += l.batch_matrix(b) * r.batch_matrix(b).transpose()
CPU_MTA_Batch(mem, l, r, y, b) ==
  NoaliasAddProduct(mem, batch_matrix(y, b),
                    batch_matrix(l, b), transpose(batch_matrix(r, b)))

\* The first n iterations of the loop over the batches.
RECURSIVE CPU_MTA_Batches(_, _, _, _, _)
CPU_MTA_Batches(mem, l, r, y, n) ==
  IF n = 0 THEN mem
  ELSE CPU_MTA_Batch(CPU_MTA_Batches(mem, l, r, y, n - 1), l, r, y, n - 1)

MatrixMultiplyTranspAcc_CPU(mem, l, r, y) ==
  IF MTA_SingleCall(l, r, y)
  THEN CPU_MTA_Wide(mem, l, r, y)
  ELSE CPU_MTA_Batches(mem, l, r, y, max_b(l, r))

\* Mutant: the inner dimension leaves out the batch, so only the first batch
\* element is multiplied.
GPU_MTA_Wide_FirstBatchOnly(mem, l, r, y) ==
  cublasSgemm(mem, FALSE, TRUE,
              rows(y), cols(y), cols(l),
              kSCALAR_ONE,
              l.v, rows(l),
              r.v, rows(r),
              kSCALAR_ONE, y.v, rows(y))

GPU_MTA_Wide(mem, l, r, y) ==
  cublasSgemm(mem, FALSE, TRUE,
              rows(y), cols(y), cols(l) * batch_elems(l),
              kSCALAR_ONE,
              l.v, rows(l),
              r.v, rows(r),
              kSCALAR_ONE, y.v, rows(y))

GPU_MTA_Batch(mem, l, r, y, b) ==
  cublasSgemm(mem, FALSE, TRUE,
              rows(y), cols(y), cols(l),
              kSCALAR_ONE,
              batch_ptr(l, b), rows(l),
              batch_ptr(r, b), rows(r),
              kSCALAR_ONE, batch_ptr(y, b), rows(y))

\* The first n iterations of the loop over the batches.
RECURSIVE GPU_MTA_Batches(_, _, _, _, _)
GPU_MTA_Batches(mem, l, r, y, n) ==
  IF n = 0 THEN mem
  ELSE GPU_MTA_Batch(GPU_MTA_Batches(mem, l, r, y, n - 1), l, r, y, n - 1)

MatrixMultiplyTranspAcc_GPU(mem, l, r, y) ==
  IF MTA_SingleCall(l, r, y)
  THEN GPU_MTA_Wide(mem, l, r, y)
  ELSE GPU_MTA_Batches(mem, l, r, y, max_b(l, r))

(***************************************************************************)
(* One call of an entry point, one backend call per step.                  *)
(*   fn, dev      the entry point and the device it was compiled for       *)
(*   L, R, Y      the tensors passed as l, r, y                            *)
(*   acc_scalar   *acc_scalar (MatrixMultiply only)                        *)
(*   heap         the memory; heap0 is the memory when the call began      *)
(*   pc, b        position in the function body and the loop counter       *)
(*   calls        the matrix-multiply calls issued so far: the batch index *)
(*                (-1 for the wide call), the status returned, and the     *)
(*                addresses whose contents the call changed                *)
(*   outside      what memory holds at each address behind the buffers     *)
(***************************************************************************)
VARIABLES fn, dev, L, R, Y, acc_scalar, heap, heap0, pc, b, calls

vars == <<fn, dev, L, R, Y, acc_scalar, heap, heap0, pc, b, calls, outside>>

Fns == {"MatrixMultiply", "MatrixTranspMultiplyAcc", "MatrixMultiplyTranspAcc"}

Devs == {"CPU", "GPU"}

Seeds == {0, 1}

Alphas == {0, 1, 2}

\* Contents of input buffers: small finite numbers that differ along the buffer.
Fill(s, i) == ((s + 2 * i) % 5) - 2

\* Contents of the pool behind the buffers, address by address: numbers that
\* differ along the pool (0), no number anywhere (1), or numbers and
\* non-numbers in turn (2).
PoolSeeds == {0, 1, 2}

PoolFill(s, a) == IF s > 0 /\ a % s = 0 THEN NaN ELSE F(Fill(s, a) + 5)

\* The pool behind n floats of buffers: far enough for every batch element a
\* pointer into the buffers can be advanced by.
Pool(n, s) == [a \in n .. ((MaxBatch + 1) * n - 1) |-> PoolFill(s, a)]

Tensor(nr, nc, bd, v) == [d |-> [rows |-> nr, cols |-> nc, bd |-> bd], v |-> v]

NumFloats(t) == batch_size(t) * batch_elems(t)

\* The shapes the callers pass for dimensions m, n, p (Dim arithmetic of the nodes).
ShapeL(f, m, n, p) == <<m, n>>

ShapeR(f, m, n, p) ==
  CASE f = "MatrixMultiply"          -> <<n, p>>
    [] f = "MatrixTranspMultiplyAcc" -> <<m, p>>
    [] f = "MatrixMultiplyTranspAcc" -> <<p, n>>

ShapeY(f, m, n, p) ==
  IF f = "MatrixTranspMultiplyAcc" THEN <<n, p>> ELSE <<m, p>>

\* The batch counts the callers pass.
BatchOK(f, lbd, rbd, ybd) ==
  CASE f = "MatrixMultiply"          -> ybd = Max(lbd, rbd)
    [] f = "MatrixTranspMultiplyAcc" -> ybd \in {1, Max(lbd, rbd)}
    [] f = "MatrixMultiplyTranspAcc" -> \/ ybd = 1 /\ lbd = rbd
                                        \/ ybd = Max(lbd, rbd)

\* Memory laid out as l | y | r; the output buffer may hold garbage.
InitHeap(tl, ty, tr, sl, sy, sr, garbage) ==
  [a \in 0 .. (NumFloats(tl) + NumFloats(ty) + NumFloats(tr) - 1) |->
     IF a < ty.v THEN F(Fill(sl, a))
     ELSE IF a < tr.v
          THEN (IF garbage /\ a = ty.v THEN NaN ELSE F(Fill(sy, a - ty.v)))
          ELSE F(Fill(sr, a - tr.v))]

Init ==
  \E f \in Fns, dv \in Devs, m \in 1..MaxDim, n \in 1..MaxDim, p \in 1..MaxDim,
     k \in 1..MaxBatch, sl \in Seeds, sy \in Seeds, ps \in PoolSeeds,
     garbage \in BOOLEAN, al \in Alphas :
    \E lbd \in {1, k}, rbd \in {1, k}, ybd \in {1, k} :
      LET tl == Tensor(ShapeL(f, m, n, p)[1], ShapeL(f, m, n, p)[2], lbd, 0)
          ty == Tensor(ShapeY(f, m, n, p)[1], ShapeY(f, m, n, p)[2], ybd, NumFloats(tl))
          tr == Tensor(ShapeR(f, m, n, p)[1], ShapeR(f, m, n, p)[2], rbd,
                       NumFloats(tl) + NumFloats(ty))
      IN  /\ BatchOK(f, lbd, rbd, ybd)
          /\ (f # "MatrixMultiply" => al = 1)
          /\ fn = f
          /\ dev = dv
          /\ L = tl
          /\ R = tr
          /\ Y = ty
          /\ acc_scalar = al
          /\ heap = InitHeap(tl, ty, tr, sl, sy, sl + 3, garbage)
          /\ outside = Pool(NumFloats(tl) + NumFloats(ty) + NumFloats(tr), ps)
          /\ heap0 = heap
          /\ pc = IF f = "MatrixMultiply" THEN "start" ELSE "dispatch"
          /\ b = 0
          /\ calls = <<>>

Frame == UNCHANGED <<fn, dev, L, R, Y, acc_scalar, heap0, outside>>

\* The addresses whose contents the step changes.
Changed == {a \in DOMAIN heap : heap'[a] # heap[a]}

\* A backend call on the CPU: Eigen evaluates the product in place and returns.
EigenCall(newmem, idx, nextpc, nextb) ==
  /\ heap' = newmem
  /\ calls' = Append(calls, [b |-> idx, ok |-> TRUE, diff |-> Changed])
  /\ pc' = nextpc
  /\ b' = nextb
  /\ Frame

\* CUBLAS_CHECK(cublasSgemm(...)): the call returns a status; any status but
\* success is fatal, whether or not the kernel had already written its output.
CUBLAS_CHECK(newmem, idx, nextpc, nextb) ==
  \/ /\ heap' = newmem
     /\ calls' = Append(calls, [b |-> idx, ok |-> TRUE, diff |-> Changed])
     /\ pc' = nextpc
     /\ b' = nextb
     /\ Frame
  \/ /\ \E written \in BOOLEAN : heap' = IF written THEN newmem ELSE heap
     /\ calls' = Append(calls, [b |-> idx, ok |-> FALSE, diff |-> Changed])
     /\ pc' = "aborted"
     /\ b' = b
     /\ Frame

\* The position after loop iteration b of a loop of n iterations.
AfterIter(n) == IF b + 1 < n THEN "loop" ELSE "done"

Is(f, dv) == fn = f /\ dev = dv

(***************************************************************************)
(* MatrixMultiply(const Device_CPU&, l, r, y, acc_scalar)                  *)
(***************************************************************************)
MM_CPU_Scale ==
  /\ Is("MatrixMultiply", "CPU") /\ pc = "start"
  /\ heap' = CPU_MM_Scale(heap, Y, acc_scalar)
  /\ pc' = "dispatch"
  /\ UNCHANGED <<b, calls>>
  /\ Frame

MM_CPU_Single ==
  /\ Is("MatrixMultiply", "CPU") /\ pc = "dispatch"
  /\ MM_SingleCall(L, R, Y)
  /\ EigenCall(CPU_MM_Wide(heap, L, R, Y), -1, "done", b)

MM_CPU_Loop ==
  /\ Is("MatrixMultiply", "CPU") /\ pc \in {"dispatch", "loop"}
  /\ ~MM_SingleCall(L, R, Y)
  /\ b < Y.d.bd
  /\ EigenCall(CPU_MM_Batch(heap, L, R, Y, b), b, AfterIter(Y.d.bd), b + 1)

(***************************************************************************)
(* MatrixMultiply(const Device_GPU&, l, r, y, acc_scalar)                  *)
(***************************************************************************)
\* CUDA_CHECK(cudaSetDevice(dev.cuda_device_id))
MM_GPU_SetDevice ==
  /\ Is("MatrixMultiply", "GPU") /\ pc = "start"
  /\ \E status \in {"cudaSuccess", "cudaError"} :
       pc' = IF status = "cudaSuccess" THEN "dispatch" ELSE "aborted"
  /\ UNCHANGED <<heap, b, calls>>
  /\ Frame

MM_GPU_Single ==
  /\ Is("MatrixMultiply", "GPU") /\ pc = "dispatch"
  /\ MM_SingleCall(L, R, Y)
  /\ CUBLAS_CHECK(GPU_MM_Wide(heap, L, R, Y, acc_scalar), -1, "done", b)

\* Mutant: the status of cublasSgemm is not checked, the loop goes on.
MM_GPU_Loop_Unchecked ==
  /\ Is("MatrixMultiply", "GPU") /\ pc \in {"dispatch", "loop"}
  /\ ~MM_SingleCall(L, R, Y)
  /\ b < Y.d.bd
  /\ \E ok \in BOOLEAN :
       /\ heap' = IF ok THEN GPU_MM_Batch(heap, L, R, Y, acc_scalar, b) ELSE heap
       /\ calls' = Append(calls, [b |-> b, ok |-> ok, diff |-> Changed])
  /\ pc' = AfterIter(Y.d.bd)
  /\ b' = b + 1
  /\ Frame

MM_GPU_Loop ==
  /\ Is("MatrixMultiply", "GPU") /\ pc \in {"dispatch", "loop"}
  /\ ~MM_SingleCall(L, R, Y)
  /\ b < Y.d.bd
  /\ CUBLAS_CHECK(GPU_MM_Batch(heap, L, R, Y, acc_scalar, b), b,
                  AfterIter(Y.d.bd), b + 1)

(***************************************************************************)
(* MatrixTranspMultiplyAcc                                                 *)
(***************************************************************************)
TMA_CPU_Single ==
  /\ Is("MatrixTranspMultiplyAcc", "CPU") /\ pc = "dispatch"
  /\ TMA_SingleCall(L, R, Y)
  /\ EigenCall(CPU_TMA_Wide(heap, L, R, Y), -1, "done", b)

\* Mutant: the loop runs to y.d.bd, as the loop of MatrixMultiply does.
TMA_CPU_Loop_OutputBound ==
  /\ Is("MatrixTranspMultiplyAcc", "CPU") /\ pc \in {"dispatch", "loop"}
  /\ ~TMA_SingleCall(L, R, Y)
  /\ b < Y.d.bd
  /\ EigenCall(CPU_TMA_Batch(heap, L, R, Y, b), b, AfterIter(Y.d.bd), b + 1)

TMA_CPU_Loop ==
  /\ Is("MatrixTranspMultiplyAcc", "CPU") /\ pc \in {"dispatch", "loop"}
  /\ ~TMA_SingleCall(L, R, Y)
  /\ b < max_b(L, R)
  /\ EigenCall(CPU_TMA_Batch(heap, L, R, Y, b), b, AfterIter(max_b(L, R)), b + 1)

TMA_GPU_Single ==
  /\ Is("MatrixTranspMultiplyAcc", "GPU") /\ pc = "dispatch"
  /\ TMA_SingleCall(L, R, Y)
  /\ CUBLAS_CHECK(GPU_TMA_Wide(heap, L, R, Y), -1, "done", b)

TMA_GPU_Loop ==
  /\ Is("MatrixTranspMultiplyAcc", "GPU") /\ pc \in {"dispatch", "loop"}
  /\ ~TMA_SingleCall(L, R, Y)
  /\ b < max_b(L, R)
  /\ CUBLAS_CHECK(GPU_TMA_Batch(heap, L, R, Y, b), b, AfterIter(max_b(L, R)), b + 1)

(***************************************************************************)
(* MatrixMultiplyTranspAcc                                                 *)
(***************************************************************************)
MTA_CPU_Single ==
  /\ Is("MatrixMultiplyTranspAcc", "CPU") /\ pc = "dispatch"
  /\ MTA_SingleCall(L, R, Y)
  /\ EigenCall(CPU_MTA_Wide(heap, L, R, Y), -1, "done", b)

MTA_CPU_Loop ==
  /\ Is("MatrixMultiplyTranspAcc", "CPU") /\ pc \in {"dispatch", "loop"}
  /\ ~MTA_SingleCall(L, R, Y)
  /\ b < max_b(L, R)
  /\ EigenCall(CPU_MTA_Batch(heap, L, R, Y, b), b, AfterIter(max_b(L, R)), b + 1)

MTA_GPU_Single ==
  /\ Is("MatrixMultiplyTranspAcc", "GPU") /\ pc = "dispatch"
  /\ MTA_SingleCall(L, R, Y)
  /\ CUBLAS_CHECK(GPU_MTA_Wide(heap, L, R, Y), -1, "done", b)

MTA_GPU_Loop ==
  /\ Is("MatrixMultiplyTranspAcc", "GPU") /\ pc \in {"dispatch", "loop"}
  /\ ~MTA_SingleCall(L, R, Y)
  /\ b < max_b(L, R)
  /\ CUBLAS_CHECK(GPU_MTA_Batch(heap, L, R, Y, b), b, AfterIter(max_b(L, R)), b + 1)

Next ==
  \/ MM_CPU_Scale
  \/ MM_CPU_Single
  \/ MM_CPU_Loop
  \/ MM_GPU_SetDevice
  \/ MM_GPU_Single
  \/ MM_GPU_Loop
  \/ TMA_CPU_Single
  \/ TMA_CPU_Loop
  \/ TMA_GPU_Single
  \/ TMA_GPU_Loop
  \/ MTA_CPU_Single
  \/ MTA_CPU_Loop
  \/ MTA_GPU_Single
  \/ MTA_GPU_Loop

Spec == Init /\ [][Next]_vars

(***************************************************************************)
(* The mathematical reading of a tensor: batch element bi is a rows x cols *)
(* column-major matrix, batch elements are contiguous, and a tensor with   *)
(* one batch element stands for that element at every batch index.        *)
(***************************************************************************)
Elem(mem, t, bi, i, j) == mem[t.v + bi * (t.d.rows * t.d.cols) + i + j * t.d.rows]

Bcast(t, bi) == IF t.d.bd > 1 THEN bi ELSE 0

Slice(t, bi) ==
  (t.v + bi * (t.d.rows * t.d.cols)) .. (t.v + (bi + 1) * (t.d.rows * t.d.cols) - 1)

Buffer(t) == t.v .. (t.v + t.d.rows * t.d.cols * t.d.bd - 1)

RowsOf(t) == 0 .. (t.d.rows - 1)

ColsOf(t) == 0 .. (t.d.cols - 1)

BatchOf(t) == 0 .. (t.d.bd - 1)

\* alpha * y as the output contract reads it: alpha = 0 overwrites.
ScaledPrior(alpha, y0) == IF alpha = 0 THEN F(0) ELSE FMul(F(alpha), y0)

\* (A[ba] * B[bb])(i, j), (A[ba]^T * B[bb])(i, j) and (A[ba] * B[bb]^T)(i, j)
ProdNN(mem, A, ba, B, bb, i, j) ==
  Dot([k \in 0 .. (A.d.cols - 1) |->
         FMul(Elem(mem, A, ba, i, k), Elem(mem, B, bb, k, j))], A.d.cols)

ProdTN(mem, A, ba, B, bb, i, j) ==
  Dot([k \in 0 .. (A.d.rows - 1) |->
         FMul(Elem(mem, A, ba, k, i), Elem(mem, B, bb, k, j))], A.d.rows)

ProdNT(mem, A, ba, B, bb, i, j) ==
  Dot([k \in 0 .. (A.d.cols - 1) |->
         FMul(Elem(mem, A, ba, i, k), Elem(mem, B, bb, j, k))], A.d.cols)

\* The whole call on device dv, every backend call succeeding.
MatrixMultiply(dv, mem, tl, tr, ty, alpha) ==
  IF dv = "CPU" THEN MatrixMultiply_CPU(mem, tl, tr, ty, alpha)
                ELSE MatrixMultiply_GPU(mem, tl, tr, ty, alpha)

MatrixTranspMultiplyAcc(dv, mem, tl, tr, ty) ==
  IF dv = "CPU" THEN MatrixTranspMultiplyAcc_CPU(mem, tl, tr, ty)
                ELSE MatrixTranspMultiplyAcc_GPU(mem, tl, tr, ty)

MatrixMultiplyTranspAcc(dv, mem, tl, tr, ty) ==
  IF dv = "CPU" THEN MatrixMultiplyTranspAcc_CPU(mem, tl, tr, ty)
                ELSE MatrixMultiplyTranspAcc_GPU(mem, tl, tr, ty)

Call(f, dv, mem, tl, tr, ty, alpha) ==
  CASE f = "MatrixMultiply"          -> MatrixMultiply(dv, mem, tl, tr, ty, alpha)
    [] f = "MatrixTranspMultiplyAcc" -> MatrixTranspMultiplyAcc(dv, mem, tl, tr, ty)
    [] f = "MatrixMultiplyTranspAcc" -> MatrixMultiplyTranspAcc(dv, mem, tl, tr, ty)

Zeroed(mem, t) == [a \in DOMAIN mem |-> IF a \in Buffer(t) THEN F(0) ELSE mem[a]]

Finite(mem, t) == \A a \in Buffer(t) : ~mem[a].nan

Done(f) == pc = "done" /\ fn = f

C1_Pre == R.d.bd = Y.d.bd /\ L.d.bd \in {1, Y.d.bd}

C1_Post ==
  \A bi \in BatchOf(Y), i \in RowsOf(Y), j \in ColsOf(Y) :
    Elem(heap, Y, bi, i, j) =
      FAdd(ScaledPrior(acc_scalar, Elem(heap0, Y, bi, i, j)),
           ProdNN(heap0, L, Bcast(L, bi), R, bi, i, j))

(***************************************************************************)
(* C1.  Forward multiply: for R.bd = Y.bd and L.bd in {1, Y.bd}, after the *)
(* call every batch slice is Y[b] = alpha*Y_old[b] + L[b']*R[b], with      *)
(* b' = b when L has more than one batch element and 0 otherwise.          *)
(* Violated: on the CPU path with alpha = 0 a non-finite Y_old survives.   *)
(***************************************************************************)
C1_ForwardContract == (Done("MatrixMultiply") /\ C1_Pre) => C1_Post

\* C1 where it does hold: the output buffer held numbers, or alpha is not 0,
\* or the call ran on the GPU.
C1_ForwardContract_Numbers ==
  (Done("MatrixMultiply") /\ C1_Pre
     /\ (Finite(heap0, Y) \/ acc_scalar # 0 \/ dev = "GPU")) => C1_Post

C2_Pre == Y.d.bd = 1 /\ L.d.bd = R.d.bd /\ L.d.bd > 1

(***************************************************************************)
(* C2.  Right-transpose accumulate with Y.bd = 1 and L.bd = R.bd = k > 1:  *)
(* after the call Y = Y_old + sum over b < k of L[b] * R[b]^T.             *)
(***************************************************************************)
C2_RightTranspBatchSum ==
  (Done("MatrixMultiplyTranspAcc") /\ C2_Pre) =>
    \A i \in RowsOf(Y), j \in ColsOf(Y) :
      Elem(heap, Y, 0, i, j) =
        FAdd(Elem(heap0, Y, 0, i, j),
             Dot([bi \in 0 .. (L.d.bd - 1) |-> ProdNT(heap0, L, bi, R, bi, i, j)],
                 L.d.bd))

\* C2's case: the single wide multiply has run over a batch of k > 1 matrices
\* of more than one column, and changed Y.
C2_Witness ==
  /\ Done("MatrixMultiplyTranspAcc") /\ C2_Pre
  /\ Len(calls) = 1
  /\ L.d.cols > 1
  /\ heap # heap0

C3_Pre == Y.d.bd = Max(L.d.bd, R.d.bd)

(***************************************************************************)
(* C3.  Left-transpose accumulate with Y.bd = max(L.bd, R.bd): after the   *)
(* call every batch slice is Y[b] = Y_old[b] + L[b']^T * R[b''], an        *)
(* operand with one batch element being used at every b; the prior         *)
(* contents are added to, on the single-call and on the looped path.       *)
(***************************************************************************)
C3_LeftTranspAccumulates ==
  (Done("MatrixTranspMultiplyAcc") /\ C3_Pre) =>
    \A bi \in BatchOf(Y), i \in RowsOf(Y), j \in ColsOf(Y) :
      Elem(heap, Y, bi, i, j) =
        FAdd(Elem(heap0, Y, bi, i, j),
             ProdTN(heap0, L, Bcast(L, bi), R, Bcast(R, bi), i, j))

\* C3's case: the looped path with the right operand reused, on prior contents
\* that are numbers other than zero.
C3_Witness ==
  /\ Done("MatrixTranspMultiplyAcc") /\ C3_Pre
  /\ L.d.bd > 1 /\ R.d.bd = 1
  /\ Len(calls) = L.d.bd
  /\ \E a \in Buffer(Y) : ~heap0[a].nan /\ heap0[a].v # 0 /\ heap[a] # heap0[a]

(***************************************************************************)
(* C4.  Forward multiply with alpha = 0 on any prior contents of Y gives   *)
(* the Y that zeroing Y and then calling with alpha = 1 gives.             *)
(* Violated: on the CPU path a non-finite Y_old survives 0 * Y_old.        *)
(***************************************************************************)
C4_ZeroAlphaOverwrites ==
  (Done("MatrixMultiply") /\ acc_scalar = 0) =>
    heap = MatrixMultiply(dev, Zeroed(heap0, Y), L, R, Y, 1)

\* C4 where it does hold: prior contents that are numbers, or the GPU path.
C4_ZeroAlphaOverwrites_Numbers ==
  (Done("MatrixMultiply") /\ acc_scalar = 0 /\ (Finite(heap0, Y) \/ dev = "GPU")) =>
    heap = MatrixMultiply(dev, Zeroed(heap0, Y), L, R, Y, 1)

OtherDev == IF dev = "CPU" THEN "GPU" ELSE "CPU"

(***************************************************************************)
(* C6.  For each entry point the CPU path and the GPU path give the same   *)
(* final Y on the same L, R, Y_old (and alpha): the memory a finished call *)
(* leaves on one device is the memory the other device's path computes.    *)
(* Violated: MatrixMultiply with alpha = 0 on a non-finite Y_old.          *)
(***************************************************************************)
C6_BackendsAgree ==
  pc = "done" => heap = Call(fn, OtherDev, heap0, L, R, Y, acc_scalar)

\* C6 where it does hold: every case but alpha = 0 on a non-finite Y_old.
C6_BackendsAgree_Numbers ==
  (pc = "done" /\ (fn = "MatrixMultiply" /\ acc_scalar = 0 => Finite(heap0, Y))) =>
    heap = Call(fn, OtherDev, heap0, L, R, Y, acc_scalar)

(***************************************************************************)
(* C7.  Every step of every entry point leaves the buffers of L and R, the *)
(* dimension descriptors and base pointers of L, R and Y, and the extent   *)
(* of memory unchanged: only Y's buffer is written.                        *)
(***************************************************************************)
C7_OnlyOutputBufferWritten ==
  [][ /\ L' = L /\ R' = R /\ Y' = Y
      /\ DOMAIN heap' = DOMAIN heap
      /\ \A a \in DOMAIN heap \ Buffer(Y) : heap'[a] = heap[a] ]_vars

\* C7's case: a loop of several calls has finished writing a one-slice Y that
\* lies between the buffers of L and R.
C7_Witness ==
  /\ pc = "done"
  /\ Len(calls) > 1
  /\ Y.d.bd = 1
  /\ \E a \in Buffer(Y) : heap[a] # heap0[a]

(***************************************************************************)
(* C8.  On the GPU path a matrix-multiply call that returns a status other *)
(* than success ends the operation: it is the last call issued (no retry,  *)
(* no call for a later batch index), and the operation does not return.    *)
(***************************************************************************)
C8_FailureIsFatal ==
  /\ \A n \in 1..Len(calls) :
       ~calls[n].ok => (n = Len(calls) /\ pc = "aborted" /\ dev = "GPU")
  /\ \A n \in 1..Len(calls), q \in 1..Len(calls) :
       n < q => calls[n].b < calls[q].b
  /\ pc = "done" => \A n \in 1..Len(calls) : calls[n].ok

\* C8's case: a call of the loop has failed with batch indices still to come.
C8_Witness ==
  /\ pc = "aborted" /\ dev = "GPU"
  /\ Len(calls) >= 1 /\ ~calls[Len(calls)].ok
  /\ calls[Len(calls)].b >= 0
  /\ calls[Len(calls)].b + 1 < Y.d.bd

C9_Expected == IF L.d.bd = 1 /\ R.d.bd = Y.d.bd THEN 1 ELSE Y.d.bd

(***************************************************************************)
(* C9.  Forward multiply issues exactly one matrix-multiply call when      *)
(* L.bd = 1 and R.bd = Y.bd, and otherwise exactly Y.bd calls, for         *)
(* b = 0 .. Y.bd-1 in increasing order, each changing only slice b of Y;   *)
(* the call ends after that bounded number of backend calls: never more    *)
(* calls than that, and a step is possible until the call has ended.       *)
(***************************************************************************)
C9_ForwardDispatch ==
  fn = "MatrixMultiply" =>
    /\ Len(calls) <= C9_Expected
    /\ pc = "done" => Len(calls) = C9_Expected
    /\ \A n \in 1..Len(calls) :
         IF L.d.bd = 1 /\ R.d.bd = Y.d.bd
         THEN calls[n].b = -1 /\ calls[n].diff \subseteq Buffer(Y)
         ELSE calls[n].b = n - 1 /\ calls[n].diff \subseteq Slice(Y, n - 1)
    /\ pc \in {"done", "aborted"} \/ ENABLED Next

\* C9's case: the looped path has finished over more than one batch element,
\* every call having changed its slice.
C9_Witness ==
  /\ Done("MatrixMultiply")
  /\ ~(L.d.bd = 1 /\ R.d.bd = Y.d.bd)
  /\ Y.d.bd > 1
  /\ Len(calls) = Y.d.bd
  /\ \A n \in 1..Len(calls) : calls[n].diff # {}

C10_Pre == Y.d.bd = 1 /\ L.d.bd = R.d.bd /\ L.d.bd > 1

(***************************************************************************)
(* C10.  Left-transpose accumulate with Y.bd = 1 and L.bd = R.bd = k > 1   *)
(* takes the loop, runs it k times, every iteration accumulating into the  *)
(* one slice of Y: Y = Y_old + sum over b < k of L[b]^T * R[b], and        *)
(* nothing outside Y's single batch element is written.                    *)
(***************************************************************************)
C10_SharedOutputBatchSum ==
  (Done("MatrixTranspMultiplyAcc") /\ C10_Pre) =>
    /\ Len(calls) = L.d.bd
    /\ \A n \in 1..Len(calls) : calls[n].b = n - 1 /\ calls[n].diff \subseteq Slice(Y, 0)
    /\ \A a \in DOMAIN heap \ Slice(Y, 0) : heap[a] = heap0[a]
    /\ \A i \in RowsOf(Y), j \in ColsOf(Y) :
         Elem(heap, Y, 0, i, j) =
           FAdd(Elem(heap0, Y, 0, i, j),
                Dot([bi \in 0 .. (L.d.bd - 1) |-> ProdTN(heap0, L, bi, R, bi, i, j)],
                    L.d.bd))

\* C10's case: the loop has run k > 1 times into the one slice of Y, every
\* iteration changing it.
C10_Witness ==
  /\ Done("MatrixTranspMultiplyAcc") /\ C10_Pre
  /\ Len(calls) = L.d.bd
  /\ \A n \in 1..Len(calls) : calls[n].diff # {}

(***************************************************************************)
(* The gradient pair.  For a product with operands L (m x n) and R (m x p) *)
(* and a third tensor Y of the product's shape (n x p), all with the same  *)
(* batch count, the two accumulate entry points are run into zeroed        *)
(* outputs laid out after l | r | y:                                       *)
(*    G_LtR  = L^T * R    by MatrixTranspMultiplyAcc(l, r, .)              *)
(*    G_RYt  = R * Y^T    by MatrixMultiplyTranspAcc(r, y, .)              *)
(*    G_LYt  = L * Y^T    by MatrixMultiplyTranspAcc(l, y, .), which the   *)
(*                        shapes allow only when n = p                     *)
(***************************************************************************)
G_LtR == Tensor(cols(L), cols(R), Y.d.bd, Y.v + NumFloats(Y))

G_RYt == Tensor(rows(R), rows(Y), Y.d.bd, G_LtR.v + NumFloats(G_LtR))

G_LYt == Tensor(rows(L), rows(Y), Y.d.bd, G_RYt.v + NumFloats(G_RYt))

AdjInit ==
  \E dv \in Devs, m \in 1..MaxDim, n \in 1..MaxDim, p \in 1..MaxDim,
     k \in 1..MaxBatch, sl \in Seeds, sy \in Seeds, sr \in Seeds,
     ps \in PoolSeeds :
    LET tl == Tensor(m, n, k, 0)
        tr == Tensor(m, p, k, NumFloats(tl))
        ty == Tensor(n, p, k, NumFloats(tl) + NumFloats(tr))
        inputs == NumFloats(tl) + NumFloats(tr) + NumFloats(ty)
        outputs == NumFloats(ty) + 2 * NumFloats(tl)
    IN  /\ fn = "Adjoint"
        /\ dev = dv
        /\ L = tl
        /\ R = tr
        /\ Y = ty
        /\ acc_scalar = 1
        /\ heap = [a \in 0 .. (inputs + outputs - 1) |->
                     IF a < tr.v THEN F(Fill(sl, a))
                     ELSE IF a < ty.v THEN F(Fill(sr, a - tr.v))
                     ELSE IF a < inputs THEN F(Fill(sy, a - ty.v))
                     ELSE F(0)]
        /\ heap0 = heap
        /\ outside = Pool(inputs + outputs, ps)
        /\ pc = "start"
        /\ b = 0
        /\ calls = <<>>

Adj_LtR ==
  /\ fn = "Adjoint" /\ pc = "start"
  /\ heap' = MatrixTranspMultiplyAcc(dev, heap, L, R, G_LtR)
  /\ pc' = "LtR"
  /\ UNCHANGED <<b, calls>>
  /\ Frame

Adj_RYt ==
  /\ fn = "Adjoint" /\ pc = "LtR"
  /\ heap' = MatrixMultiplyTranspAcc(dev, heap, R, Y, G_RYt)
  /\ pc' = "RYt"
  /\ UNCHANGED <<b, calls>>
  /\ Frame

Adj_LYt ==
  /\ fn = "Adjoint" /\ pc = "RYt"
  /\ cols(L) = cols(Y)
  /\ heap' = MatrixMultiplyTranspAcc(dev, heap, L, Y, G_LYt)
  /\ pc' = "LYt"
  /\ UNCHANGED <<b, calls>>
  /\ Frame

AdjNext ==
  \/ Adj_LtR
  \/ Adj_RYt
  \/ Adj_LYt

AdjSpec == AdjInit /\ [][AdjNext]_vars

\* <A, B>: the sum of the elementwise products of two tensors of one shape.
Inner(mem, A, B) ==
  Dot([o \in 0 .. (NumFloats(A) - 1) |-> FMul(mem[A.v + o], mem[B.v + o])],
      NumFloats(A))

(***************************************************************************)
(* C5 as stated.  <L^T*R, Y> = <R, L*Y^T> whenever the dimensions permit   *)
(* both products (cols_L = cols_R).  Violated: it needs Y symmetric.       *)
(***************************************************************************)
C5_AdjointAsStated ==
  pc = "LYt" => Inner(heap, G_LtR, Y) = Inner(heap, R, G_LYt)

(***************************************************************************)
(* C5 as amended.  For L (m x n), R (m x p), Y (n x p), with the products  *)
(* computed by the two accumulate entry points into zeroed outputs:        *)
(* <L^T*R, Y> = <L, R*Y^T>.                                                *)
(***************************************************************************)
C5_Adjoint ==
  pc \in {"RYt", "LYt"} => Inner(heap, G_LtR, Y) = Inner(heap, L, G_RYt)

\* C5's case: both products computed over a batch, for shapes that are not
\* square, with an inner product that is not zero.
C5_Witness ==
  /\ pc = "RYt"
  /\ rows(L) > 1 /\ cols(L) # cols(R) /\ L.d.bd > 1
  /\ Inner(heap, G_LtR, Y).v # 0

====
